---- MODULE Spec2Model ----
(***************************************************************************)
(* opendrive-cli: the OpenDriveAPI class (src/opendrivecli/opendriveapi.py) *)
(* as a state machine.  The object's only mutable field is __sessionId.    *)
(* Every public method is one action: the method runs to its return (or to *)
(* the exception that leaves it) in one step, and the requests it sends    *)
(* are recorded, in order, together with the answers the server gave.      *)
(* The server is the environment: for every request it may answer          *)
(*   - 200 with a JSON object holding the expected field,                  *)
(*   - 200 with a JSON object lacking the field, or with a non-JSON body,   *)
(*   - another 2xx status (urlopen hands the response back),               *)
(*   - a status for which urlopen raises urllib.request.HTTPError.         *)
(* A connection that never reaches the server (urllib.error.URLError) is   *)
(* not an answer of the server and is not drawn.                           *)
(*                                                                         *)
(* Spec follows one OpenDriveAPI object under arbitrary calls.  CliSpec    *)
(* follows one run of the command line program (src/opendrive-cli.py and   *)
(* OpenDriveClient.run), which builds the object, logs in once and         *)
(* dispatches one command; there the lines the log functions write to      *)
(* standard output and standard error are followed too.                    *)
(***************************************************************************)
EXTENDS Integers, Sequences, FiniteSets, TLC

VARIABLES sessionId, call, prev, issued, cli, stdout, stderr

vars == <<sessionId, call, prev, issued, cli, stdout, stderr>>

process == <<cli, stdout, stderr>>

(***************************************************************************)
(* Bounds of the model.                                                    *)
(***************************************************************************)
NumTokens == 2
NumFiles == 1
MaxVerbosity == 3

(***************************************************************************)
(* Python values.  None and the empty string are the falsy values the      *)
(* code's "if x" / "if not x" tests meet.                                   *)
(***************************************************************************)
None == "None"

Truthy(v) == v # None /\ v # ""

PyTrue == [t |-> "bool", v |-> "True"]

PyFalse == [t |-> "bool", v |-> "False"]

PyNone == [t |-> "NoneType", v |-> "None"]

PyStr(s) == [t |-> "str", v |-> s]

PyBool(b) == IF b THEN PyTrue ELSE PyFalse

Raise(e) == [t |-> "raise", v |-> e]

(***************************************************************************)
(* Inputs.                                                                 *)
(***************************************************************************)
TokenNames == <<"sid-A", "sid-B", "sid-C", "sid-D">>

Tokens == {TokenNames[i] : i \in 1..NumTokens}

FileNames == <<"123", "456", "789">>

FileIds == {FileNames[i] : i \in 1..NumFiles}

Usernames == {None, "", "user@example.com"}

Passwords == {None, "", "secret"}

Recipients == {"a@example.com,b@example.com"}

Subjects == {None, "", "Report"}

MailBodies == {None, "", "See the link"}

NewNames == {"new.txt"}

OptionalNames == {None, ""} \cup NewNames

FolderIds == {"900"}

Paths == {"docs/report.txt"}

AccessPerms == {"PRIVATE", "PUBLIC", "HIDDEN"}

AccessValue(access) ==
    CASE access = "PRIVATE" -> 0
      [] access = "PUBLIC" -> 1
      [] access = "HIDDEN" -> 2

(***************************************************************************)
(* HTTP responses as urllib delivers them.                                 *)
(***************************************************************************)
NotJson == [json |-> FALSE, obj |-> <<>>]

JsonObj(o) == [json |-> TRUE, obj |-> o]

HttpErrorCodes == {403}

OtherOkCodes == {204}

Responses(Bodies) ==
    {[raised |-> TRUE, code |-> c, body |-> NotJson] : c \in HttpErrorCodes}
    \cup {[raised |-> FALSE, code |-> c, body |-> NotJson] : c \in OtherOkCodes}
    \cup {[raised |-> FALSE, code |-> 200, body |-> b] : b \in Bodies}

NoResponse == [raised |-> TRUE, code |-> 0, body |-> NotJson]

\* The answers to a request: drawn from S when the request is sent; a request
\* that is never sent gets no answer.
Answers(sent, S) == IF sent THEN S ELSE {NoResponse}

PlainBodies == {NotJson, JsonObj(<<>>)}

\* The server issues non-empty session ids, and never the one the client still
\* holds when it logs in again.
LoginBodies(held) ==
    PlainBodies \cup {JsonObj([SessionID |-> s]) : s \in Tokens \ {held}}

ExistsBodies == PlainBodies \cup {JsonObj([result |-> b]) : b \in BOOLEAN}

IdByPathBodies == PlainBodies \cup {JsonObj([FileId |-> f]) : f \in FileIds}

(***************************************************************************)
(* Helpers of the class.                                                   *)
(***************************************************************************)
BASEURL == "https://dev.opendrive.com/api/v1/"

decodejson(data) ==
    IF data.json THEN [ok |-> TRUE, obj |-> data.obj]
    ELSE [ok |-> FALSE, obj |-> <<>>]

dopost(url, postobject, resp) ==
    [req |-> [method |-> "POST", url |-> url, data |-> postobject], resp |-> resp]

Outcome(ret, sid, exch) == [ret |-> ret, sid |-> sid, exch |-> exch]

(***************************************************************************)
(* Session methods.                                                        *)
(***************************************************************************)
\* Mutant of logout: the token is cleared inside the try block, so an
\* HTTPError skips the clearing.
logout_keeps_token_on_httperror(sid, resp) ==
    IF Truthy(sid)
    THEN Outcome(PyNone, IF resp.raised THEN sid ELSE None,
                 <<dopost(BASEURL \o "session/logout.json", [session_id |-> sid], resp)>>)
    ELSE Outcome(PyNone, sid, <<>>)

logout(sid, resp) ==
    IF Truthy(sid)
    THEN Outcome(PyNone, None,
                 <<dopost(BASEURL \o "session/logout.json", [session_id |-> sid], resp)>>)
    ELSE Outcome(PyNone, sid, <<>>)

\* Mutant of login: the call to logout() is missing.
login_without_logout(sid, username, password, rOut, rIn) ==
    IF ~Truthy(username) \/ ~Truthy(password)
    THEN Outcome(PyFalse, sid, <<>>)
    ELSE LET exch == <<dopost(BASEURL \o "session/login.json",
                              [username |-> username, passwd |-> password], rIn)>>
         IN  IF rIn.raised THEN Outcome(PyFalse, sid, exch)
             ELSE IF rIn.code # 200 THEN Outcome(PyFalse, sid, exch)
             ELSE LET userinfo == decodejson(rIn.body)
                  IN  IF ~userinfo.ok THEN Outcome(Raise("ValueError"), sid, exch)
                      ELSE IF "SessionID" \notin DOMAIN userinfo.obj
                           THEN Outcome(Raise("KeyError"), sid, exch)
                      ELSE Outcome(PyTrue, userinfo.obj.SessionID, exch)

\* Mutant of login: the old session is logged out only once the new login has
\* been answered 200; a refused login keeps the old token.
login_keeps_session_on_failure(sid, username, password, rOut, rIn) ==
    IF ~Truthy(username) \/ ~Truthy(password)
    THEN Outcome(PyFalse, sid, <<>>)
    ELSE LET rq == dopost(BASEURL \o "session/login.json",
                          [username |-> username, passwd |-> password], rIn)
         IN  IF rIn.raised THEN Outcome(PyFalse, sid, <<rq>>)
             ELSE IF rIn.code # 200 THEN Outcome(PyFalse, sid, <<rq>>)
             ELSE LET out == IF Truthy(sid) THEN logout(sid, rOut)
                             ELSE Outcome(PyNone, sid, <<>>)
                      exch == <<rq>> \o out.exch
                      userinfo == decodejson(rIn.body)
                  IN  IF ~userinfo.ok THEN Outcome(Raise("ValueError"), out.sid, exch)
                      ELSE IF "SessionID" \notin DOMAIN userinfo.obj
                           THEN Outcome(Raise("KeyError"), out.sid, exch)
                      ELSE Outcome(PyTrue, userinfo.obj.SessionID, exch)

\* Mutant of login: only the username is tested before the network is used.
login_checks_username_only(sid, username, password, rOut, rIn) ==
    IF ~Truthy(username)
    THEN Outcome(PyFalse, sid, <<>>)
    ELSE LET out == IF Truthy(sid) THEN logout(sid, rOut) ELSE Outcome(PyNone, sid, <<>>)
             exch == out.exch \o
                     <<dopost(BASEURL \o "session/login.json",
                              [username |-> username, passwd |-> password], rIn)>>
         IN  IF rIn.raised THEN Outcome(PyFalse, out.sid, exch)
             ELSE IF rIn.code # 200 THEN Outcome(PyFalse, out.sid, exch)
             ELSE LET userinfo == decodejson(rIn.body)
                  IN  IF ~userinfo.ok THEN Outcome(Raise("ValueError"), out.sid, exch)
                      ELSE IF "SessionID" \notin DOMAIN userinfo.obj
                           THEN Outcome(Raise("KeyError"), out.sid, exch)
                      ELSE Outcome(PyTrue, userinfo.obj.SessionID, exch)

\* Mutant of login: the SessionID of the answer is read but not stored.
login_drops_sessionid(sid, username, password, rOut, rIn) ==
    IF ~Truthy(username) \/ ~Truthy(password)
    THEN Outcome(PyFalse, sid, <<>>)
    ELSE LET out == IF Truthy(sid) THEN logout(sid, rOut) ELSE Outcome(PyNone, sid, <<>>)
             exch == out.exch \o
                     <<dopost(BASEURL \o "session/login.json",
                              [username |-> username, passwd |-> password], rIn)>>
         IN  IF rIn.raised THEN Outcome(PyFalse, out.sid, exch)
             ELSE IF rIn.code # 200 THEN Outcome(PyFalse, out.sid, exch)
             ELSE LET userinfo == decodejson(rIn.body)
                  IN  IF ~userinfo.ok THEN Outcome(Raise("ValueError"), out.sid, exch)
                      ELSE IF "SessionID" \notin DOMAIN userinfo.obj
                           THEN Outcome(Raise("KeyError"), out.sid, exch)
                      ELSE Outcome(PyTrue, out.sid, exch)

login(sid, username, password, rOut, rIn) ==
    IF ~Truthy(username) \/ ~Truthy(password)
    THEN Outcome(PyFalse, sid, <<>>)
    ELSE LET out == IF Truthy(sid) THEN logout(sid, rOut) ELSE Outcome(PyNone, sid, <<>>)
             exch == out.exch \o
                     <<dopost(BASEURL \o "session/login.json",
                              [username |-> username, passwd |-> password], rIn)>>
         IN  IF rIn.raised THEN Outcome(PyFalse, out.sid, exch)
             ELSE IF rIn.code # 200 THEN Outcome(PyFalse, out.sid, exch)
             ELSE LET userinfo == decodejson(rIn.body)
                  IN  IF ~userinfo.ok THEN Outcome(Raise("ValueError"), out.sid, exch)
                      ELSE IF "SessionID" \notin DOMAIN userinfo.obj
                           THEN Outcome(Raise("KeyError"), out.sid, exch)
                      ELSE Outcome(PyTrue, userinfo.obj.SessionID, exch)

\* Mutant of loggedin: a session the server reports dead is dropped.
loggedin_forgets_dead_session(sid, resp) ==
    IF ~Truthy(sid)
    THEN Outcome(PyFalse, sid, <<>>)
    ELSE LET exch == <<dopost(BASEURL \o "session/exists.json", [session_id |-> sid], resp)>>
         IN  IF resp.raised THEN Outcome(PyFalse, None, exch)
             ELSE IF resp.code # 200 THEN Outcome(PyFalse, None, exch)
             ELSE LET sessioninfo == decodejson(resp.body)
                  IN  IF ~sessioninfo.ok THEN Outcome(Raise("ValueError"), sid, exch)
                      ELSE IF "result" \notin DOMAIN sessioninfo.obj
                           THEN Outcome(Raise("KeyError"), sid, exch)
                      ELSE Outcome(PyBool(sessioninfo.obj.result),
                                   IF sessioninfo.obj.result THEN sid ELSE None, exch)

loggedin(sid, resp) ==
    IF ~Truthy(sid)
    THEN Outcome(PyFalse, sid, <<>>)
    ELSE LET exch == <<dopost(BASEURL \o "session/exists.json", [session_id |-> sid], resp)>>
         IN  IF resp.raised THEN Outcome(PyFalse, sid, exch)
             ELSE IF resp.code # 200 THEN Outcome(PyFalse, sid, exch)
             ELSE LET sessioninfo == decodejson(resp.body)
                  IN  IF ~sessioninfo.ok THEN Outcome(Raise("ValueError"), sid, exch)
                      ELSE IF "result" \notin DOMAIN sessioninfo.obj
                           THEN Outcome(Raise("KeyError"), sid, exch)
                      ELSE Outcome(PyBool(sessioninfo.obj.result), sid, exch)

(***************************************************************************)
(* File methods.  Each one first asks loggedin(); an exception raised in   *)
(* loggedin() is outside the method's try block and leaves the method.     *)
(***************************************************************************)
\* Mutant of file_trash: the result of loggedin() is not tested.
file_trash_without_gate(sid, fileid, rLive, rOp) ==
    LET live == loggedin(sid, rLive)
    IN  IF live.ret.t = "raise" THEN live
        ELSE LET exch == live.exch \o
                         <<dopost(BASEURL \o "file/trash.json",
                                  [session_id |-> sid, file_id |-> fileid], rOp)>>
             IN  IF rOp.raised THEN Outcome(PyFalse, sid, exch)
                 ELSE IF rOp.code # 200 THEN Outcome(PyFalse, sid, exch)
                 ELSE Outcome(PyTrue, sid, exch)

file_trash(sid, fileid, rLive, rOp) ==
    LET live == loggedin(sid, rLive)
    IN  IF live.ret.t = "raise" THEN live
        ELSE IF live.ret # PyTrue THEN Outcome(PyFalse, sid, live.exch)
        ELSE LET exch == live.exch \o
                         <<dopost(BASEURL \o "file/trash.json",
                                  [session_id |-> sid, file_id |-> fileid], rOp)>>
             IN  IF rOp.raised THEN Outcome(PyFalse, sid, exch)
                 ELSE IF rOp.code # 200 THEN Outcome(PyFalse, sid, exch)
                 ELSE Outcome(PyTrue, sid, exch)

\* Mutant of file_restore: a request that met an HTTPError is sent once more.
file_restore_retries_once(sid, fileid, rLive, rOp) ==
    LET live == loggedin(sid, rLive)
    IN  IF live.ret.t = "raise" THEN live
        ELSE IF live.ret # PyTrue THEN Outcome(PyFalse, sid, live.exch)
        ELSE LET rq == dopost(BASEURL \o "file/restore.json",
                              [session_id |-> sid, file_id |-> fileid], rOp)
             IN  IF rOp.raised THEN Outcome(PyFalse, sid, live.exch \o <<rq, rq>>)
                 ELSE IF rOp.code # 200 THEN Outcome(PyFalse, sid, live.exch \o <<rq>>)
                 ELSE Outcome(PyTrue, sid, live.exch \o <<rq>>)

file_restore(sid, fileid, rLive, rOp) ==
    LET live == loggedin(sid, rLive)
    IN  IF live.ret.t = "raise" THEN live
        ELSE IF live.ret # PyTrue THEN Outcome(PyFalse, sid, live.exch)
        ELSE LET exch == live.exch \o
                         <<dopost(BASEURL \o "file/restore.json",
                                  [session_id |-> sid, file_id |-> fileid], rOp)>>
             IN  IF rOp.raised THEN Outcome(PyFalse, sid, exch)
                 ELSE IF rOp.code # 200 THEN Outcome(PyFalse, sid, exch)
                 ELSE Outcome(PyTrue, sid, exch)

\* Mutant of file_sendbyemail: subject and body are tested against None only,
\* so an empty string is sent.
file_sendbyemail_sends_empty(sid, fileid, rcpt, subject, body, rLive, rOp) ==
    LET live == loggedin(sid, rLive)
    IN  IF live.ret.t = "raise" THEN live
        ELSE IF live.ret # PyTrue THEN Outcome(PyFalse, sid, live.exch)
        ELSE LET req0 == [session_id |-> sid, file_id |-> fileid, recipient_emails |-> rcpt]
                 req1 == IF subject # None THEN req0 @@ [message_subject |-> subject] ELSE req0
                 req == IF body # None THEN req1 @@ [message_body |-> body] ELSE req1
                 exch == live.exch \o <<dopost(BASEURL \o "file/sendbyemail.json", req, rOp)>>
             IN  IF rOp.raised THEN Outcome(PyFalse, sid, exch)
                 ELSE IF rOp.code # 200 THEN Outcome(PyFalse, sid, exch)
                 ELSE Outcome(PyTrue, sid, exch)

file_sendbyemail(sid, fileid, rcpt, subject, body, rLive, rOp) ==
    LET live == loggedin(sid, rLive)
    IN  IF live.ret.t = "raise" THEN live
        ELSE IF live.ret # PyTrue THEN Outcome(PyFalse, sid, live.exch)
        ELSE LET req0 == [session_id |-> sid, file_id |-> fileid, recipient_emails |-> rcpt]
                 req1 == IF Truthy(subject) THEN req0 @@ [message_subject |-> subject] ELSE req0
                 req == IF Truthy(body) THEN req1 @@ [message_body |-> body] ELSE req1
                 exch == live.exch \o <<dopost(BASEURL \o "file/sendbyemail.json", req, rOp)>>
             IN  IF rOp.raised THEN Outcome(PyFalse, sid, exch)
                 ELSE IF rOp.code # 200 THEN Outcome(PyFalse, sid, exch)
                 ELSE Outcome(PyTrue, sid, exch)

\* Mutant of file_rename: the two arguments are put under each other's key.
file_rename_swapped_fields(sid, fileid, name, rLive, rOp) ==
    LET live == loggedin(sid, rLive)
    IN  IF live.ret.t = "raise" THEN live
        ELSE IF live.ret # PyTrue THEN Outcome(PyFalse, sid, live.exch)
        ELSE LET exch == live.exch \o
                         <<dopost(BASEURL \o "file/rename.json",
                                  [session_id |-> sid, file_id |-> name,
                                   new_file_name |-> fileid], rOp)>>
             IN  IF rOp.raised THEN Outcome(PyFalse, sid, exch)
                 ELSE IF rOp.code # 200 THEN Outcome(PyFalse, sid, exch)
                 ELSE Outcome(PyTrue, sid, exch)

file_rename(sid, fileid, name, rLive, rOp) ==
    LET live == loggedin(sid, rLive)
    IN  IF live.ret.t = "raise" THEN live
        ELSE IF live.ret # PyTrue THEN Outcome(PyFalse, sid, live.exch)
        ELSE LET exch == live.exch \o
                         <<dopost(BASEURL \o "file/rename.json",
                                  [session_id |-> sid, file_id |-> fileid,
                                   new_file_name |-> name], rOp)>>
             IN  IF rOp.raised THEN Outcome(PyFalse, sid, exch)
                 ELSE IF rOp.code # 200 THEN Outcome(PyFalse, sid, exch)
                 ELSE Outcome(PyTrue, sid, exch)

\* Mutant of file_movecopy: the flags are serialized with str(), which gives
\* "True"/"False".
file_movecopy_str_flags(sid, fileid, folderid, move, override, name, rLive, rOp) ==
    LET live == loggedin(sid, rLive)
    IN  IF live.ret.t = "raise" THEN live
        ELSE IF live.ret # PyTrue THEN Outcome(PyFalse, sid, live.exch)
        ELSE LET req0 == [session_id |-> sid, src_file_id |-> fileid,
                          dst_folder_id |-> folderid]
                 req1 == req0 @@ [move |-> IF move THEN "True" ELSE "False"]
                 req2 == req1 @@ [overwrite_if_exists |->
                                      IF override THEN "True" ELSE "False"]
                 req == IF Truthy(name) THEN req2 @@ [new_file_name |-> name] ELSE req2
                 exch == live.exch \o <<dopost(BASEURL \o "file/move_copy.json", req, rOp)>>
             IN  IF rOp.raised THEN Outcome(PyFalse, sid, exch)
                 ELSE IF rOp.code # 200 THEN Outcome(PyFalse, sid, exch)
                 ELSE Outcome(PyTrue, sid, exch)

file_movecopy(sid, fileid, folderid, move, override, name, rLive, rOp) ==
    LET live == loggedin(sid, rLive)
    IN  IF live.ret.t = "raise" THEN live
        ELSE IF live.ret # PyTrue THEN Outcome(PyFalse, sid, live.exch)
        ELSE LET req0 == [session_id |-> sid, src_file_id |-> fileid,
                          dst_folder_id |-> folderid]
                 req1 == req0 @@ [move |-> IF move THEN "true" ELSE "false"]
                 req2 == req1 @@ [overwrite_if_exists |->
                                      IF override THEN "true" ELSE "false"]
                 req == IF Truthy(name) THEN req2 @@ [new_file_name |-> name] ELSE req2
                 exch == live.exch \o <<dopost(BASEURL \o "file/move_copy.json", req, rOp)>>
             IN  IF rOp.raised THEN Outcome(PyFalse, sid, exch)
                 ELSE IF rOp.code # 200 THEN Outcome(PyFalse, sid, exch)
                 ELSE Outcome(PyTrue, sid, exch)

file_idbypath(sid, path, rLive, rOp) ==
    LET live == loggedin(sid, rLive)
    IN  IF live.ret.t = "raise" THEN live
        ELSE IF live.ret # PyTrue THEN Outcome(PyNone, sid, live.exch)
        ELSE LET exch == live.exch \o
                         <<dopost(BASEURL \o "file/idbypath.json",
                                  [session_id |-> sid, path |-> path], rOp)>>
             IN  IF rOp.raised THEN Outcome(PyNone, sid, exch)
                 ELSE IF rOp.code # 200 THEN Outcome(PyNone, sid, exch)
                 ELSE LET fileinfo == decodejson(rOp.body)
                      IN  IF ~fileinfo.ok THEN Outcome(Raise("ValueError"), sid, exch)
                          ELSE IF "FileId" \notin DOMAIN fileinfo.obj
                               THEN Outcome(Raise("KeyError"), sid, exch)
                          ELSE Outcome(PyStr(fileinfo.obj.FileId), sid, exch)

file_setaccess(sid, fileid, access, rLive, rOp) ==
    LET live == loggedin(sid, rLive)
    IN  IF live.ret.t = "raise" THEN live
        ELSE IF live.ret # PyTrue THEN Outcome(PyNone, sid, live.exch)
        ELSE LET exch == live.exch \o
                         <<dopost(BASEURL \o "file/access.json",
                                  [session_id |-> sid, file_id |-> fileid,
                                   file_ispublic |-> AccessValue(access)], rOp)>>
             IN  IF rOp.raised THEN Outcome(PyFalse, sid, exch)
                 ELSE IF rOp.code # 200 THEN Outcome(PyFalse, sid, exch)
                 ELSE Outcome(PyTrue, sid, exch)

(***************************************************************************)
(* State machine.                                                          *)
(***************************************************************************)
NoCall == [op |-> "init", args |-> <<>>, pre |-> None, ret |-> PyNone, exch |-> <<>>]

\* What the next call needs to know of the call before it: a login or a logout
\* with its result and whether its last request met an HTTPError, or that it
\* was some other call.
Summary(c) ==
    IF c.op \in {"login", "logout"}
    THEN [op |-> c.op, ret |-> c.ret,
          httperror |-> c.exch # <<>> /\ c.exch[Len(c.exch)].resp.raised]
    ELSE [op |-> "other", ret |-> PyNone, httperror |-> FALSE]

\* No command line run: the object is used as a library.
NoCli == [pc |-> "none"]

Init ==
    /\ sessionId = None
    /\ call = NoCall
    /\ prev = Summary(NoCall)
    /\ issued = None
    /\ cli = NoCli
    /\ stdout = <<>>
    /\ stderr = <<>>

Record(op, args, o) ==
    /\ sessionId' = o.sid
    /\ call' = [op |-> op, args |-> args, pre |-> sessionId, ret |-> o.ret, exch |-> o.exch]
    /\ prev' = Summary(call)

\* The liveness check let the method go on to its own request.
Alive(sid, rLive) == loggedin(sid, rLive).ret = PyTrue

Login ==
    \E u \in Usernames, p \in Passwords :
     \E rOut \in Answers(Truthy(u) /\ Truthy(p) /\ Truthy(sessionId), Responses(PlainBodies)),
        rIn \in Answers(Truthy(u) /\ Truthy(p), Responses(LoginBodies(sessionId))) :
        LET o == login(sessionId, u, p, rOut, rIn)
        IN  /\ Record("login", [username |-> u, password |-> p], o)
            /\ issued' = IF o.ret = PyTrue THEN rIn.body.obj.SessionID ELSE issued
            /\ UNCHANGED process

Logout ==
    \E r \in Answers(Truthy(sessionId), Responses(PlainBodies)) :
        /\ Record("logout", <<>>, logout(sessionId, r))
        /\ UNCHANGED <<issued, process>>

LoggedIn ==
    \E r \in Answers(Truthy(sessionId), Responses(ExistsBodies)) :
        /\ Record("loggedin", <<>>, loggedin(sessionId, r))
        /\ UNCHANGED <<issued, process>>

FileTrash ==
    \E f \in FileIds, rLive \in Answers(Truthy(sessionId), Responses(ExistsBodies)) :
     \E rOp \in Answers(Alive(sessionId, rLive), Responses(PlainBodies)) :
        /\ Record("file_trash", [fileid |-> f], file_trash(sessionId, f, rLive, rOp))
        /\ UNCHANGED <<issued, process>>

FileRestore ==
    \E f \in FileIds, rLive \in Answers(Truthy(sessionId), Responses(ExistsBodies)) :
     \E rOp \in Answers(Alive(sessionId, rLive), Responses(PlainBodies)) :
        /\ Record("file_restore", [fileid |-> f], file_restore(sessionId, f, rLive, rOp))
        /\ UNCHANGED <<issued, process>>

FileSendByEmail ==
    \E f \in FileIds, rcpt \in Recipients, subject \in Subjects, body \in MailBodies,
       rLive \in Answers(Truthy(sessionId), Responses(ExistsBodies)) :
     \E rOp \in Answers(Alive(sessionId, rLive), Responses(PlainBodies)) :
        /\ Record("file_sendbyemail",
                  [fileid |-> f, rcpt |-> rcpt, subject |-> subject, body |-> body],
                  file_sendbyemail(sessionId, f, rcpt, subject, body, rLive, rOp))
        /\ UNCHANGED <<issued, process>>

FileRename ==
    \E f \in FileIds, name \in NewNames,
       rLive \in Answers(Truthy(sessionId), Responses(ExistsBodies)) :
     \E rOp \in Answers(Alive(sessionId, rLive), Responses(PlainBodies)) :
        /\ Record("file_rename", [fileid |-> f, name |-> name],
                  file_rename(sessionId, f, name, rLive, rOp))
        /\ UNCHANGED <<issued, process>>

FileMoveCopy ==
    \E f \in FileIds, folder \in FolderIds, move \in BOOLEAN, override \in BOOLEAN,
       name \in OptionalNames,
       rLive \in Answers(Truthy(sessionId), Responses(ExistsBodies)) :
     \E rOp \in Answers(Alive(sessionId, rLive), Responses(PlainBodies)) :
        /\ Record("file_movecopy",
                  [fileid |-> f, folderid |-> folder, move |-> move,
                   override |-> override, name |-> name],
                  file_movecopy(sessionId, f, folder, move, override, name, rLive, rOp))
        /\ UNCHANGED <<issued, process>>

FileIdByPath ==
    \E path \in Paths,
       rLive \in Answers(Truthy(sessionId), Responses(ExistsBodies)) :
     \E rOp \in Answers(Alive(sessionId, rLive), Responses(IdByPathBodies)) :
        /\ Record("file_idbypath", [path |-> path],
                  file_idbypath(sessionId, path, rLive, rOp))
        /\ UNCHANGED <<issued, process>>

FileSetAccess ==
    \E f \in FileIds, access \in AccessPerms,
       rLive \in Answers(Truthy(sessionId), Responses(ExistsBodies)) :
     \E rOp \in Answers(Alive(sessionId, rLive), Responses(PlainBodies)) :
        /\ Record("file_setaccess", [fileid |-> f, access |-> access],
                  file_setaccess(sessionId, f, access, rLive, rOp))
        /\ UNCHANGED <<issued, process>>

Next ==
    \/ Login
    \/ Logout
    \/ LoggedIn
    \/ FileTrash
    \/ FileRestore
    \/ FileSendByEmail
    \/ FileRename
    \/ FileMoveCopy
    \/ FileIdByPath
    \/ FileSetAccess

Spec == Init /\ [][Next]_vars

(***************************************************************************)
(* Logging.  A log function returns the lines it writes to standard output *)
(* and to standard error.  The text after "got HTTP Status <code>:" (the   *)
(* reason phrase or the body) is left out of the messages.                 *)
(***************************************************************************)
ODLogLevel == [ERROR |-> 0, WARN |-> 1, INFO |-> 2, DEBUG |-> 3]

Written(out, err) == [out |-> out, err |-> err]

LogCall(message, level) == [message |-> message, level |-> level]

log(loglevel, message, level) ==
    IF level <= loglevel
    THEN IF level = ODLogLevel.ERROR
         THEN Written(<<message>>, <<"[ERROR] " \o message>>)
         ELSE IF level = ODLogLevel.WARN
         THEN Written(<<"[WARN] " \o message>>, <<>>)
         ELSE IF level = ODLogLevel.INFO
         THEN Written(<<"[INFO] " \o message>>, <<>>)
         ELSE Written(<<"[DEBUG] " \o message>>, <<>>)
    ELSE Written(<<>>, <<>>)

cli_log(v, message, level) ==
    IF level <= v
    THEN IF level = 0
         THEN Written(<<>>, <<message>>)
         ELSE Written(<<message>>, <<>>)
    ELSE Written(<<>>, <<>>)

\* The lines a sequence of OpenDriveAPI.log calls writes.
RECURSIVE log_all(_, _)
log_all(loglevel, calls) ==
    IF calls = <<>> THEN Written(<<>>, <<>>)
    ELSE LET first == log(loglevel, calls[1].message, calls[1].level)
             rest == log_all(loglevel, Tail(calls))
         IN  Written(first.out \o rest.out, first.err \o rest.err)

\* The log calls of logout and of login, in the order they are made.
logout_log(sid, resp) ==
    IF Truthy(sid) /\ resp.raised
    THEN <<LogCall("Error logging out, got HTTP Status " \o ToString(resp.code) \o ":",
                   ODLogLevel.ERROR)>>
    ELSE <<>>

login_log(sid, username, password, rOut, rIn) ==
    IF ~Truthy(username) \/ ~Truthy(password)
    THEN <<LogCall("Username or password not set", ODLogLevel.ERROR)>>
    ELSE (IF Truthy(sid) THEN logout_log(sid, rOut) ELSE <<>>)
         \o <<LogCall("Logging in to OpenDrive with Username " \o username,
                      ODLogLevel.DEBUG)>>
         \o (IF rIn.raised \/ rIn.code # 200
             THEN <<LogCall("Error logging in to OpenDrive, got HTTP Status "
                            \o ToString(rIn.code) \o ":", ODLogLevel.ERROR)>>
             ELSE <<>>)

(***************************************************************************)
(* The command line program.                                               *)
(***************************************************************************)
NoKey == "<no key>"

NoAttr == "<no attribute>"

NotCalled == [t |-> "none", v |-> "not called"]

\* The configuration file that was found, if any: whether it has a [global]
\* section and what the section holds under user and password.
NoConfig == [file |-> FALSE, global |-> FALSE, user |-> NoKey, password |-> NoKey]

Configs ==
    {NoConfig, [file |-> TRUE, global |-> FALSE, user |-> NoKey, password |-> NoKey]}
    \cup {[file |-> TRUE, global |-> TRUE, user |-> u, password |-> pw] :
              u \in {NoKey, "", "cfg@example.com"}, pw \in {NoKey, "cfgsecret"}}

\* The parsed arguments: -v count, --user, --password, and func, which only
\* the put subcommand sets.
Arguments ==
    [v : 0..MaxVerbosity, user : Usernames, password : Passwords,
     func : {"put", NoAttr}, local_file : {"a.txt"}, remote_dir : {"docs"}]

resolve(flag, config, key) ==
    IF Truthy(flag) THEN flag
    ELSE IF config.file /\ config.global /\ config[key] # NoKey THEN config[key]
    ELSE None

\* Mutant of credentials_missing: only the username is tested.
credentials_missing_username_only(username, password) == ~Truthy(username)

credentials_missing(username, password) == ~Truthy(username) \/ ~Truthy(password)

\* Truth of a returned value in `if not ...` / `if success`.
PyTruthy(ret) == ret = PyTrue \/ (ret.t = "str" /\ ret.v # "")

\* OpenDriveClient.__put: its log call and the value it returns.
put(args) ==
    [ret |-> PyNone,
     logs |-> <<LogCall("Uploading " \o args.local_file \o " to " \o args.remote_dir,
                        ODLogLevel.DEBUG)>>]

\* The handler run() picks for args.func.
dispatch(args) ==
    IF args.func = "put" THEN put(args) ELSE [ret |-> PyFalse, logs |-> <<>>]

Start(args, config) ==
    [pc |-> "main", args |-> args, config |-> config, username |-> None,
     password |-> None, od |-> FALSE, login |-> NotCalled, success |-> NotCalled,
     exit |-> <<>>, traceback |-> FALSE, logged |-> <<>>]

CliInit ==
    /\ sessionId = None
    /\ call = NoCall
    /\ prev = Summary(NoCall)
    /\ issued = None
    /\ cli \in {Start(args, config) : args \in Arguments, config \in Configs}
    /\ stdout = <<>>
    /\ stderr = <<>>

Exit(c, code) == [c EXCEPT !.pc = "exit", !.exit = <<code>>]

\* An exception nobody catches ends the process with status 1.
Uncaught(c) == [Exit(c, 1) EXCEPT !.traceback = TRUE]

Write(w) ==
    /\ stdout' = stdout \o w.out
    /\ stderr' = stderr \o w.err

\* opendrive-cli.py, lines 53-66.
CliResolve ==
    /\ cli.pc = "main"
    /\ cli' = [cli EXCEPT !.pc = "resolved",
                          !.username = resolve(cli.args.user, cli.config, "user"),
                          !.password = resolve(cli.args.password, cli.config, "password")]
    /\ UNCHANGED <<sessionId, call, prev, issued, stdout, stderr>>

\* opendrive-cli.py, lines 68-74, up to the call of run().
CliCheck ==
    /\ cli.pc = "resolved"
    /\ IF credentials_missing(cli.username, cli.password)
       THEN /\ Write(cli_log(cli.args.v, "Username or password not set", 0))
            /\ cli' = [Exit(cli, 1) EXCEPT
                           !.logged = @ \o <<LogCall("Username or password not set", 0)>>]
       ELSE /\ Write(cli_log(cli.args.v, "Using username " \o cli.username, 2))
            /\ cli' = [cli EXCEPT
                           !.pc = "run", !.od = TRUE,
                           !.logged = @ \o <<LogCall("Using username " \o cli.username, 2)>>]
    /\ UNCHANGED <<sessionId, call, prev, issued>>

\* OpenDriveClient.run, lines 26-29.
ClientLogin ==
    /\ cli.pc = "run"
    /\ \E rOut \in Answers(Truthy(sessionId), Responses(PlainBodies)),
          rIn \in Responses(LoginBodies(sessionId)) :
        LET o == login(sessionId, cli.username, cli.password, rOut, rIn)
            calls == <<LogCall("Starting OpenDrive Client", 3)>>
                     \o login_log(sessionId, cli.username, cli.password, rOut, rIn)
            c == [cli EXCEPT !.login = o.ret, !.logged = @ \o calls]
        IN  /\ Record("login", [username |-> cli.username, password |-> cli.password], o)
            /\ issued' = IF o.ret = PyTrue THEN rIn.body.obj.SessionID ELSE issued
            /\ Write(log_all(cli.args.v, calls))
            /\ cli' = IF o.ret.t = "raise" THEN Uncaught(c)
                      ELSE IF ~PyTruthy(o.ret) THEN Exit(c, 1)
                      ELSE [c EXCEPT !.pc = "dispatch"]

\* OpenDriveClient.run, lines 31-41.
ClientDispatch ==
    /\ cli.pc = "dispatch"
    /\ IF cli.args.func = NoAttr
       THEN /\ cli' = Uncaught([cli EXCEPT !.success = Raise("AttributeError")])
            /\ UNCHANGED <<stdout, stderr>>
       ELSE LET done == dispatch(cli.args)
                calls == done.logs \o
                         <<IF PyTruthy(done.ret)
                           THEN LogCall("Action completed successfully", 2)
                           ELSE LogCall("Action completed with errors", 0)>>
                c == [cli EXCEPT !.success = done.ret, !.logged = @ \o calls]
            IN  /\ Write(log_all(cli.args.v, calls))
                /\ cli' = Exit(c, IF PyTruthy(done.ret) THEN 0 ELSE 1)
    /\ UNCHANGED <<sessionId, call, prev, issued>>

CliNext ==
    \/ CliResolve
    \/ CliCheck
    \/ ClientLogin
    \/ ClientDispatch

CliSpec == CliInit /\ [][CliNext]_vars

(***************************************************************************)
(* Vocabulary of the properties.  They read the recorded call: its         *)
(* arguments, the token held before it (call.pre), the requests it sent    *)
(* with the server's answers (call.exch) and what it returned or raised.   *)
(***************************************************************************)
FileOps ==
    {"file_trash", "file_restore", "file_sendbyemail", "file_rename",
     "file_movecopy", "file_idbypath", "file_setaccess"}

Endpoint(op) ==
    CASE op = "login" -> "session/login.json"
      [] op = "logout" -> "session/logout.json"
      [] op = "loggedin" -> "session/exists.json"
      [] op = "file_trash" -> "file/trash.json"
      [] op = "file_restore" -> "file/restore.json"
      [] op = "file_sendbyemail" -> "file/sendbyemail.json"
      [] op = "file_rename" -> "file/rename.json"
      [] op = "file_movecopy" -> "file/move_copy.json"
      [] op = "file_idbypath" -> "file/idbypath.json"
      [] op = "file_setaccess" -> "file/access.json"

Post(op, payload) == [method |-> "POST", url |-> BASEURL \o Endpoint(op), data |-> payload]

SentTo(op) == {i \in DOMAIN call.exch : call.exch[i].req.url = BASEURL \o Endpoint(op)}

LastAnswer == call.exch[Len(call.exch)].resp

Is200(r) == ~r.raised /\ r.code = 200

IsNon200(r) == ~r.raised /\ r.code # 200

HasField(r, f) == Is200(r) /\ r.body.json /\ f \in DOMAIN r.body.obj

LacksField(r, f) == Is200(r) /\ r.body.json /\ f \notin DOMAIN r.body.obj

CredentialsGiven ==
    call.op = "login" /\ Truthy(call.args.username) /\ Truthy(call.args.password)

\* The liveness check of the recorded file call came out false: no token was
\* held, or the liveness endpoint answered result false, non-200 or HTTPError.
LivenessFalse ==
    \/ ~Truthy(call.pre)
    \/ /\ call.exch # <<>>
       /\ LET r == call.exch[1].resp
          IN  \/ r.raised
              \/ IsNon200(r)
              \/ HasField(r, "result") /\ r.body.obj.result = FALSE

\* The liveness check of the recorded call was answered 200 with result true.
LivenessTrue ==
    /\ Truthy(call.pre)
    /\ call.exch # <<>>
    /\ HasField(call.exch[1].resp, "result")
    /\ call.exch[1].resp.body.obj.result = TRUE

AfterSuccessfulLogin == prev.op = "login" /\ prev.ret = PyTrue

(***************************************************************************)
(* C1: nothing propagates as an uncaught fault out of the API layer: every *)
(* API call, whatever the server answers, returns a value instead of       *)
(* raising.                                                                *)
(***************************************************************************)
C1_NothingPropagates == call.ret.t # "raise"

(***************************************************************************)
(* C2: logout clears the held token even when the remote logout call fails *)
(* with an HTTP error: after any logout no token is held, and an           *)
(* isLoggedIn that follows returns false without any network request.      *)
(***************************************************************************)
C2_LogoutAlwaysClears ==
    /\ call.op = "logout" => sessionId = None
    /\ (prev.op = "logout" /\ call.op = "loggedin") =>
           (call.pre = None /\ call.ret = PyFalse /\ call.exch = <<>>)

C2_Witness ==
    /\ prev.op = "logout"
    /\ prev.httperror
    /\ call.op = "loggedin"
    /\ call.ret = PyFalse
    /\ call.exch = <<>>

(***************************************************************************)
(* C3: a login with non-empty credentials while a token T is held sends a  *)
(* logout request carrying T before the login request, T is no longer held *)
(* afterwards whatever the login outcome, and the client holds at most one *)
(* token.                                                                  *)
(***************************************************************************)
C3_LoginLogsOutFirst ==
    /\ sessionId \in Tokens \cup {None}
    /\ (CredentialsGiven /\ Truthy(call.pre)) =>
           /\ Len(call.exch) = 2
           /\ call.exch[1].req = Post("logout", [session_id |-> call.pre])
           /\ call.exch[2].req.url = BASEURL \o Endpoint("login")
           /\ sessionId # call.pre

C3_Witness ==
    /\ CredentialsGiven
    /\ Truthy(call.pre)
    /\ call.ret = PyTrue
    /\ Truthy(sessionId)
    /\ call.exch[1].req.data.session_id = call.pre

(***************************************************************************)
(* C4: a file operation called while isLoggedIn is false (no token held,   *)
(* liveness result false, liveness non-200, liveness HTTP error) sends no  *)
(* request to the operation's endpoint and does not report success.        *)
(***************************************************************************)
C4_LivenessGate ==
    (call.op \in FileOps /\ LivenessFalse) =>
        /\ SentTo(call.op) = {}
        /\ Len(call.exch) <= 1
        /\ call.ret \in {PyFalse, PyNone}

C4_Witness ==
    /\ call.op \in FileOps
    /\ Truthy(call.pre)
    /\ LivenessFalse
    /\ HasField(call.exch[1].resp, "result")
    /\ Len(call.exch) = 1

(***************************************************************************)
(* C5: a failed login leaves no token held: when login is called with      *)
(* non-empty credentials and the login endpoint answers non-200 or with an *)
(* HTTP error, login returns false and no token is held afterwards,        *)
(* whether or not one was held before.                                     *)
(***************************************************************************)
C5_FailedLoginHoldsNothing ==
    (CredentialsGiven /\ call.exch # <<>> /\ (LastAnswer.raised \/ IsNon200(LastAnswer))) =>
        /\ call.exch[Len(call.exch)].req.url = BASEURL \o Endpoint("login")
        /\ call.ret = PyFalse
        /\ sessionId = None

C5_Witness ==
    /\ CredentialsGiven
    /\ Truthy(call.pre)
    /\ Len(call.exch) = 2
    /\ LastAnswer.raised
    /\ call.ret = PyFalse
    /\ sessionId = None

(***************************************************************************)
(* C6: a login in which the username or the password is empty or missing   *)
(* returns false and issues no network request at all, neither a login     *)
(* request nor a logout of a held token.                                   *)
(***************************************************************************)
C6_EmptyCredentialsFailFast ==
    (call.op = "login" /\ ~(Truthy(call.args.username) /\ Truthy(call.args.password))) =>
        /\ call.ret = PyFalse
        /\ call.exch = <<>>

C6_Witness ==
    /\ call.op = "login"
    /\ Truthy(call.args.username)
    /\ call.args.password = ""
    /\ Truthy(call.pre)
    /\ call.ret = PyFalse
    /\ call.exch = <<>>

(***************************************************************************)
(* C7: a successful login (HTTP 200 with a SessionID field) stores that    *)
(* SessionID as the held token and returns true; an isLoggedIn that        *)
(* follows sends exactly that token to the liveness endpoint and returns   *)
(* true when the endpoint answers 200 with result true.                    *)
(***************************************************************************)
C7_LoginStoresSessionId ==
    /\ (CredentialsGiven /\ call.exch # <<>> /\ HasField(LastAnswer, "SessionID")) =>
           /\ call.ret = PyTrue
           /\ sessionId = LastAnswer.body.obj.SessionID
           /\ issued = LastAnswer.body.obj.SessionID
    /\ (AfterSuccessfulLogin /\ call.op = "loggedin") =>
           /\ Len(call.exch) = 1
           /\ call.exch[1].req = Post("loggedin", [session_id |-> issued])
           /\ LivenessTrue => call.ret = PyTrue

C7_Witness ==
    /\ AfterSuccessfulLogin
    /\ call.op = "loggedin"
    /\ call.exch[1].req.data.session_id = issued
    /\ LivenessTrue
    /\ call.ret = PyTrue

(***************************************************************************)
(* C8: idByPath returns none, and does not raise, when the endpoint        *)
(* answers 200 with a body lacking a FileId field and when it answers      *)
(* non-200; it returns the FileId only when the 200 body contains it.      *)
(***************************************************************************)
C8_IdByPathNoneWhenAbsent ==
    (call.op = "file_idbypath" /\ Len(call.exch) = 2) =>
        /\ LacksField(LastAnswer, "FileId") => call.ret = PyNone
        /\ IsNon200(LastAnswer) => call.ret = PyNone
        /\ call.ret.t = "str" =>
               (HasField(LastAnswer, "FileId") /\ call.ret.v = LastAnswer.body.obj.FileId)

(***************************************************************************)
(* C9: setAccess has a boolean result on every path: true on HTTP 200,     *)
(* false on every failure (not logged in, non-200, HTTP error); it never   *)
(* returns none.                                                           *)
(***************************************************************************)
C9_SetAccessReturnsBool ==
    (call.op = "file_setaccess" /\ call.ret.t # "raise") =>
        /\ call.ret \in {PyTrue, PyFalse}
        /\ call.ret = PyTrue <=> (Len(call.exch) = 2 /\ Is200(LastAnswer))

(***************************************************************************)
(* C10: every request a file operation sends carries session_id equal to   *)
(* the token issued by the most recent successful login; a rename(fileid,  *)
(* name) whose endpoint answers 200 returns true and has sent exactly the  *)
(* payload {session_id: held token, file_id: fileid, new_file_name: name}. *)
(***************************************************************************)
C10_RequestsCarryIssuedToken ==
    /\ call.op \in FileOps =>
           \A i \in DOMAIN call.exch :
               /\ "session_id" \in DOMAIN call.exch[i].req.data
               /\ call.exch[i].req.data.session_id = issued
    /\ (call.op = "file_rename" /\ Len(call.exch) = 2 /\ Is200(LastAnswer)) =>
           /\ call.ret = PyTrue
           /\ call.exch[2].req =
                  Post("file_rename",
                       [session_id |-> issued, file_id |-> call.args.fileid,
                        new_file_name |-> call.args.name])
           /\ sessionId = issued

C10_Witness ==
    /\ AfterSuccessfulLogin
    /\ call.op = "file_rename"
    /\ call.ret = PyTrue
    /\ call.exch[2].req.data = [session_id |-> sessionId, file_id |-> call.args.fileid,
                                new_file_name |-> call.args.name]

(***************************************************************************)
(* C11: for every combination of the move and override arguments,         *)
(* moveOrCopy serializes move and overwrite_if_exists as the literal       *)
(* strings "true" or "false" matching the argument's truth value, and      *)
(* new_file_name is in the payload exactly when a non-empty name is given. *)
(***************************************************************************)
JsonFlag(b) == IF b THEN "true" ELSE "false"

C11_MoveCopyFlagsAreStrings ==
    (call.op = "file_movecopy" /\ Len(call.exch) = 2) =>
        LET data == call.exch[2].req.data
        IN  /\ data.move \in {"true", "false"}
            /\ data.overwrite_if_exists \in {"true", "false"}
            /\ data.move = JsonFlag(call.args.move)
            /\ data.overwrite_if_exists = JsonFlag(call.args.override)
            /\ "new_file_name" \in DOMAIN data <=> Truthy(call.args.name)
            /\ Truthy(call.args.name) => data.new_file_name = call.args.name

C11_Witness ==
    /\ call.op = "file_movecopy"
    /\ Len(call.exch) = 2
    /\ call.args.move
    /\ ~call.args.override
    /\ call.args.name = ""
    /\ call.exch[2].req.data =
           [session_id |-> sessionId, src_file_id |-> call.args.fileid,
            dst_folder_id |-> call.args.folderid, move |-> "true",
            overwrite_if_exists |-> "false"]

(***************************************************************************)
(* C12: sendByEmail's payload has the key message_subject if and only if a *)
(* non-empty subject is supplied, and the key message_body if and only if  *)
(* a non-empty body is supplied; keys not supplied are absent, not sent as *)
(* empty strings.                                                          *)
(***************************************************************************)
C12_MailKeysOnlyWhenSupplied ==
    (call.op = "file_sendbyemail" /\ Len(call.exch) = 2) =>
        LET data == call.exch[2].req.data
        IN  /\ "message_subject" \in DOMAIN data <=> Truthy(call.args.subject)
            /\ "message_body" \in DOMAIN data <=> Truthy(call.args.body)
            /\ \A k \in DOMAIN data : data[k] # ""
            /\ Truthy(call.args.subject) => data.message_subject = call.args.subject
            /\ Truthy(call.args.body) => data.message_body = call.args.body

C12_Witness ==
    /\ call.op = "file_sendbyemail"
    /\ Len(call.exch) = 2
    /\ call.args.subject = ""
    /\ call.args.body = None
    /\ DOMAIN call.exch[2].req.data = {"session_id", "file_id", "recipient_emails"}

(***************************************************************************)
(* C13: a run of the command line program exits with code 0 when login and *)
(* the dispatched operation (put) succeed, and with code 1 on any failure  *)
(* (missing credentials, login failure, operation failure); every run ends *)
(* in one of these two exits.                                              *)
(***************************************************************************)
CredentialsResolved == Truthy(cli.username) /\ Truthy(cli.password)

OperationRan == cli.success # NotCalled

OperationFailed == cli.success = PyFalse \/ cli.success.t = "raise"

C13_ExitCodes ==
    cli.pc = "exit" =>
        /\ cli.exit \in {<<0>>, <<1>>}
        /\ cli.exit = <<0>> <=>
               (/\ CredentialsResolved
                /\ cli.login = PyTrue
                /\ OperationRan
                /\ ~OperationFailed)

(***************************************************************************)
(* C14: log routing: an Error-level message is always written to standard  *)
(* error and to no other stream; a Warning, Info or Debug message is       *)
(* written to standard output only, and only when its level does not       *)
(* exceed the configured verbosity.                                        *)
(***************************************************************************)
ErrorCalls == {i \in DOMAIN cli.logged : cli.logged[i].level = 0}

ShownCalls ==
    {i \in DOMAIN cli.logged : cli.logged[i].level # 0 /\ cli.logged[i].level <= cli.args.v}

C14_LogRouting ==
    cli.pc # "none" =>
        /\ Len(stderr) = Cardinality(ErrorCalls)
        /\ Len(stdout) = Cardinality(ShownCalls)

(***************************************************************************)
(* C15: each credential is resolved in the order command line flag, then   *)
(* [global] entry of the configuration file, then none; when the username  *)
(* or the password is unresolved the process exits with code 1 before any  *)
(* network request: no client is constructed and login is never called.    *)
(***************************************************************************)
InOrder(key) ==
    IF cli.args[key] \notin {None, ""} THEN cli.args[key]
    ELSE IF cli.config.file /\ cli.config.global /\ cli.config[key] # NoKey
    THEN cli.config[key]
    ELSE None

Unresolved(key) == InOrder(key) \in {None, ""}

C15_MissingCredentialsExitFirst ==
    /\ cli.pc \notin {"none", "main"} =>
           (cli.username = InOrder("user") /\ cli.password = InOrder("password"))
    /\ (cli.pc \notin {"none", "main", "resolved"}
        /\ (Unresolved("user") \/ Unresolved("password"))) =>
           /\ cli.pc = "exit"
           /\ cli.exit = <<1>>
           /\ ~cli.od
           /\ cli.login = NotCalled
           /\ call = NoCall
           /\ sessionId = None

C15_Witness ==
    /\ cli.pc = "exit"
    /\ cli.args.user = None
    /\ cli.username = "cfg@example.com"
    /\ cli.password = None
    /\ cli.exit = <<1>>
    /\ ~cli.od
    /\ call = NoCall
    /\ stderr = <<"Username or password not set">>

(***************************************************************************)
(* C16: no retries and no auto-re-login: one file operation sends at most  *)
(* one liveness request followed by at most one request to its own         *)
(* endpoint, in that order, and never a login or logout request; one login *)
(* sends at most one logout request followed by at most one login request; *)
(* a failed attempt is not repeated within the call.                       *)
(***************************************************************************)
Urls == [i \in DOMAIN call.exch |-> call.exch[i].req.url]

C16_NoRetries ==
    /\ call.op \in FileOps =>
           Urls \in {<<>>,
                     <<BASEURL \o Endpoint("loggedin")>>,
                     <<BASEURL \o Endpoint("loggedin"), BASEURL \o Endpoint(call.op)>>}
    /\ call.op = "login" =>
           Urls \in {<<>>,
                     <<BASEURL \o Endpoint("login")>>,
                     <<BASEURL \o Endpoint("logout"), BASEURL \o Endpoint("login")>>}

C16_Witness ==
    /\ call.op = "file_restore"
    /\ Len(call.exch) = 2
    /\ LastAnswer.raised
    /\ call.ret = PyFalse

(***************************************************************************)
(* C17: the held token changes only inside login with non-empty            *)
(* credentials and inside logout: isLoggedIn, every file operation and a   *)
(* login rejected for empty credentials leave it unchanged whatever the    *)
(* server answers; a liveness check that reports the session dead (result  *)
(* false, non-200 or HTTP error) does not clear the stale token.           *)
(***************************************************************************)
C17_TokenFrame ==
    (\/ call.op \in FileOps \cup {"loggedin"}
     \/ call.op = "login" /\ ~CredentialsGiven) =>
        sessionId = call.pre

C17_Witness ==
    /\ call.op = "loggedin"
    /\ Truthy(call.pre)
    /\ LivenessFalse
    /\ call.ret = PyFalse
    /\ sessionId = call.pre

====
